---- MODULE Spec2Model ----
(***************************************************************************)
(* Offline-first synchronisation of the Field Service Report application.  *)
(*                                                                         *)
(* The model covers the local store (lib/offline-db.ts: the timeEntries,   *)
(* users and syncQueue tables of the Dexie database), the offline path of  *)
(* the entry form (components/time-entry-form.tsx) and the synchronisation *)
(* engine (lib/sync-service.ts: SyncService).  JavaScript runs the         *)
(* handlers on one thread, so a handler runs without interruption from one *)
(* `await` to the next: every action below is the code between two awaits, *)
(* and the `pc` of a drain pass or of a store write names the await it is  *)
(* suspended at.                                                           *)
(***************************************************************************)
EXTENDS Naturals, Integers, Sequences, FiniteSets, TLC

(* ------------------------------ bounds -------------------------------- *)

\* Number of addTimeEntry/updateTimeEntry/deleteTimeEntry calls explored.
MaxWrites == 2

\* Number of invocations of syncPendingData that may be suspended at once.
MaxPasses == 2

\* Cap on how often the server applies the request of one queue entry.
MaxApplied == 1

\* Number of downloadServerData calls explored.
MaxDownloads == 2

\* Number of saveUser calls that may be suspended at once.
MaxSavers == 2

\* Number of saveUser calls that complete.
MaxSaves == 3

\* Number of entries the form hands to the createTimeEntry server action.
MaxDirect == 1

\* Number of local-store operations of a pass that reject.
MaxFaults == 1

(* ------------------------- program constants -------------------------- *)

\* private maxRetries = 3
maxRetries == 3

\* private retryDelay = 1000
retryDelay == 1000

\* for (let i = 0; i < 3; i++): the months downloadServerData fetches
MonthCount == 3

\* (1000 * 60 * 60), the milliseconds of an hour
MsPerHour == 1000 * 60 * 60

(* ------------------------------- state -------------------------------- *)

VARIABLES
  timeEntries,    \* Dexie table timeEntries: OfflineTimeEntry records
  nextEntryId,    \* auto-increment key of timeEntries ("++id")
  syncQueue,      \* Dexie table syncQueue: SyncQueueItem records
  nextQueueId,    \* auto-increment key of syncQueue ("++id")
  now,            \* the wall clock read by `new Date()`; it advances between two writes
  online,         \* navigator.onLine
  syncInProgress, \* SyncService.syncInProgress
  pass,           \* the invocations of syncPendingData: slot -> frame
  writer,         \* the store write in flight (add/update/deleteTimeEntry)
  applied,        \* remote authority: queue id -> times its request was applied
  exhausted,      \* queue ids given up on by a drain pass (retry exhaustion)
  persisted,      \* number of time-entry table writes made by store writes
  callLog,        \* the store writes that returned, in order: <<action, id>>
  undrained,      \* no drain pass and no clearPending has run so far
  syncReturn,     \* value returned by the last syncPendingData call to return
  users,          \* Dexie table users: records [id, email, lastSync]
  nextUserId,     \* auto-increment key of users ("++id")
  saver,          \* the saveUser calls in flight: slot -> frame
  dl,             \* the downloadServerData call in flight
  dlCalls,        \* number of downloadServerData calls made
  dlReturn,       \* how the last downloadServerData call ended
  stable,         \* connectivity is back for good and the gateway accepts
  direct,         \* entries the createTimeEntry server action made for the form
  resolver,       \* the resolveConflict(id, "local") call in flight
  stats,          \* the last calculateMonthlyStats/calculateYearlyStats report
  sent,           \* gateway: queue id -> answered requests for the queued entry
  faults,         \* local-store operations of a pass that rejected
  dlOther         \* a second downloadServerData call, overlapping the first

\* The state of the form's online path, of resolveConflict and of the reports,
\* and the count of store faults.
xvars == <<direct, resolver, stats, faults, dlOther>>

\* The state outside the two tables' writes, the drain pass and the gateway.
evars == <<users, nextUserId, saver, dl, dlCalls, dlReturn, stable, xvars>>

\* The state outside the two tables' writes and the drain pass.
dvars == <<evars, sent>>

vars == <<timeEntries, nextEntryId, syncQueue, nextQueueId, now, online,
          syncInProgress, pass, writer, applied, exhausted, persisted,
          callLog, undrained, syncReturn, dvars>>

Slots == 1..MaxPasses

Actions == {"create", "update", "delete"}

\* A frame of syncPendingData: the await it is suspended at, pendingItems, the
\* index of the loop's item and the setTimeout argument of a running delay.
IdleFrame == [pc |-> "idle", items |-> <<>>, i |-> 0, ms |-> 0]

IdleWriter == [pc |-> "idle", action |-> "none", id |-> 0, valid |-> TRUE, ts |-> 0]

IdleSaver == [pc |-> "idle", email |-> "", found |-> 0]

SaverSlots == 1..MaxSavers

IdleResolver == [pc |-> "idle", id |-> 0, entry |-> <<>>]

NoStats == [kind |-> "none"]

\* `failed`: a fetch of the call came back with a response that was not ok.
IdleDownload ==
  [pc |-> "idle", userId |-> "", m |-> 0, entries |-> <<>>, k |-> 0,
   failed |-> FALSE]

Init ==
  /\ timeEntries = {}
  /\ nextEntryId = 1
  /\ syncQueue = {}
  /\ nextQueueId = 1
  /\ now = 0
  /\ online \in BOOLEAN
  /\ syncInProgress = FALSE
  /\ pass = [s \in Slots |-> IdleFrame]
  /\ writer = IdleWriter
  /\ applied = [q \in 1..MaxWrites |-> 0]
  /\ exhausted = {}
  /\ persisted = 0
  /\ callLog = <<>>
  /\ undrained = TRUE
  /\ syncReturn = "none"
  /\ users = {}
  /\ nextUserId = 1
  /\ saver = [k \in SaverSlots |-> IdleSaver]
  /\ dl = IdleDownload
  /\ dlCalls = 0
  /\ dlReturn = "none"
  /\ stable = FALSE
  /\ direct = 0
  /\ resolver = IdleResolver
  /\ stats = NoStats
  /\ sent = [q \in 1..MaxWrites |-> 0]
  /\ faults = 0
  /\ dlOther = IdleDownload

(* --------------------------- local store ------------------------------ *)

\* id.toString() of a table key
IdString(id) == ToString(id)

\* Variant of QueueItem: recordId taken from the queue entry's own key.
QueueItemOwnKey(qid, action, id, ts, valid) ==
  [id |-> qid, action |-> action, table |-> "timeEntry",
   recordId |-> IdString(qid), retryCount |-> 0, timestamp |-> ts,
   valid |-> valid]

\* The record addToSyncQueue adds: retryCount 0, timestamp = new Date().
\* `valid` abstracts the payload: whether it has the shape of an
\* OfflineTimeEntry (isOfflineTimeEntry).
QueueItem(qid, action, id, ts, valid) ==
  [id |-> qid, action |-> action, table |-> "timeEntry",
   recordId |-> IdString(id), retryCount |-> 0, timestamp |-> ts,
   valid |-> valid]

\* The index order of orderBy("timestamp"): by key, ties by primary key.
Before(a, b) ==
  \/ a.timestamp < b.timestamp
  \/ a.timestamp = b.timestamp /\ a.id < b.id

RECURSIVE OrderBy(_)
OrderBy(S) ==
  IF S = {} THEN <<>>
  ELSE LET first == CHOOSE x \in S : \A y \in S \ {x} : Before(x, y)
       IN  <<first>> \o OrderBy(S \ {first})

\* Variant of getPendingSyncItems: the index read newest first.
getPendingSyncItemsReversed ==
  LET items == OrderBy(syncQueue)
  IN  [k \in 1..Len(items) |-> items[Len(items) + 1 - k]]

\* offlineDb.getPendingSyncItems()
getPendingSyncItems == OrderBy(syncQueue)

\* offlineDb.markSyncItemCompleted(id): syncQueue.delete(id)
markSyncItemCompleted(id) == {q \in syncQueue : q.id # id}

\* Variant of incrementSyncRetry: the update is not keyed by id.
incrementSyncRetryAll(id) ==
  {[q EXCEPT !.retryCount = q.retryCount + 1] : q \in syncQueue}

\* offlineDb.incrementSyncRetry(id): get(id), then update(id, retryCount + 1)
\* when the item is there.  No other handler writes retryCount, and update
\* of a key that was deleted meanwhile changes nothing, so the two awaits
\* are one step.
incrementSyncRetry(id) ==
  {IF q.id = id THEN [q EXCEPT !.retryCount = q.retryCount + 1] ELSE q :
     q \in syncQueue}

\* The milliseconds of a day (Date arithmetic).
MsPerDay == 24 * MsPerHour

\* new Date(data.date) of the form: the calendar day `day` at midnight
DateOf(day) == day * MsPerDay

\* timeStarted.setHours(hour, minute, 0, 0) on a copy of the date
SetHours(date, hm) == date + hm[1] * MsPerHour + hm[2] * (MsPerHour \div 60)

\* (timeEnded.getTime() - timeStarted.getTime()) / (1000 * 60 * 60), kept in
\* tenths of an hour (3.5 hours is 35): the times explored are multiples of
\* six minutes, so the quotient is exact.
HoursWorked(timeStarted, timeEnded) ==
  ((timeEnded - timeStarted) * 10) \div MsPerHour

\* What the form hands to addTimeEntry for its fields: a day, two "HH:MM"
\* times, the participants added so far and the participated switch.
FormEntry(userId, input) ==
  LET timeStarted == SetHours(DateOf(input.day), input.started)
      timeEnded == SetHours(DateOf(input.day), input.ended)
  IN  [userId |-> userId, date |-> DateOf(input.day),
       timeStarted |-> timeStarted, timeEnded |-> timeEnded,
       hoursWorked |-> HoursWorked(timeStarted, timeEnded),
       studies |-> input.studies, participated |-> input.participated,
       comments |-> input.comments]

\* session.user.email, which the form uses as the userId of its entries
SessionEmail == "u1"

\* Form fields of the writes whose fields play no part: day 1, 09:00 to
\* 12:30, no participant.
DefaultInput ==
  [day |-> 1, started |-> <<9, 0>>, ended |-> <<12, 30>>, studies |-> <<>>,
   participated |-> FALSE, comments |-> ""]

DefaultEntry == FormEntry(SessionEmail, DefaultInput)

\* An update that names no field.
NoUpdates == [f \in {} |-> 0]

\* The record timeEntries.add stores for an entry: the entry's fields, the
\* key and the synced flag.
EntryRecord(id, entry, synced) ==
  [id |-> id, userId |-> entry.userId, date |-> entry.date,
   timeStarted |-> entry.timeStarted, timeEnded |-> entry.timeEnded,
   hoursWorked |-> entry.hoursWorked, studies |-> entry.studies,
   participated |-> entry.participated, comments |-> entry.comments,
   synced |-> synced]

\* { ...updates, synced: false } laid over a record: the fields the update
\* names are replaced, every other field is left as it is.
Merge(e, updates) ==
  [f \in DOMAIN e |->
     IF f = "synced" THEN FALSE
     ELSE IF f \in DOMAIN updates THEN updates[f]
     ELSE e[f]]

\* timeEntries.update(id, {...updates, synced: false}): no record, no change
UpdateEntry(id, updates) ==
  {IF e.id = id THEN Merge(e, updates) ELSE e : e \in timeEntries}

\* timeEntries.delete(id)
DeleteEntry(id) == {e \in timeEntries : e.id # id}

\* The first await of addTimeEntry(entry), for an entry of `Entries`:
\* timeEntries.add(offlineEntry) resolves, then addToSyncQueue reads the
\* clock and issues syncQueue.add.
AddTimeEntryOf(Entries) ==
  /\ writer.pc = "idle"
  /\ persisted < MaxWrites
  /\ \E entry \in Entries, valid \in BOOLEAN, t \in {now + 1} :
       /\ timeEntries' = timeEntries \cup
            {EntryRecord(nextEntryId, entry, FALSE)}
       /\ nextEntryId' = nextEntryId + 1
       /\ now' = t
       /\ writer' = [pc |-> "enqueue", action |-> "create", id |-> nextEntryId,
                     valid |-> valid, ts |-> t]
  /\ persisted' = persisted + 1
  /\ UNCHANGED <<syncQueue, nextQueueId, online, syncInProgress, pass, applied,
                 exhausted, callLog, undrained, syncReturn, dvars>>

\* The first await of updateTimeEntry(id, updates), for an id of `Ids` and
\* an update of `Updates`.
UpdateTimeEntryOf(Ids, Updates) ==
  /\ writer.pc = "idle"
  /\ persisted < MaxWrites
  /\ \E id \in Ids, updates \in Updates, t \in {now + 1} :
       /\ timeEntries' = UpdateEntry(id, updates)
       /\ now' = t
       /\ writer' = [pc |-> "enqueue", action |-> "update", id |-> id,
                     valid |-> TRUE, ts |-> t]
  /\ persisted' = persisted + 1
  /\ UNCHANGED <<nextEntryId, syncQueue, nextQueueId, online, syncInProgress,
                 pass, applied, exhausted, callLog, undrained,
                 syncReturn, dvars>>

\* The first await of deleteTimeEntry(id), for an id of `Ids`.
DeleteTimeEntryOf(Ids) ==
  /\ writer.pc = "idle"
  /\ persisted < MaxWrites
  /\ \E id \in Ids, t \in {now + 1} :
       /\ timeEntries' = DeleteEntry(id)
       /\ now' = t
       /\ writer' = [pc |-> "enqueue", action |-> "delete", id |-> id,
                     valid |-> TRUE, ts |-> t]
  /\ persisted' = persisted + 1
  /\ UNCHANGED <<nextEntryId, syncQueue, nextQueueId, online, syncInProgress,
                 pass, applied, exhausted, callLog, undrained,
                 syncReturn, dvars>>

\* The keys the timeEntries table has handed out so far.
AssignedIds == 1..(nextEntryId - 1)

\* addTimeEntry of an entry whose fields play no part.
AddTimeEntry == AddTimeEntryOf({DefaultEntry})

\* updateTimeEntry of a key the table has handed out, no field named.
UpdateTimeEntry == UpdateTimeEntryOf(AssignedIds, {NoUpdates})

\* deleteTimeEntry of a key the table has handed out.
DeleteTimeEntry == DeleteTimeEntryOf(AssignedIds)

\* The second await of the three writes: addToSyncQueue's syncQueue.add
\* resolves and the write returns.
Enqueue ==
  /\ writer.pc = "enqueue"
  /\ syncQueue' = syncQueue \cup
       {QueueItem(nextQueueId, writer.action, writer.id, writer.ts, writer.valid)}
  /\ nextQueueId' = nextQueueId + 1
  /\ writer' = IdleWriter
  /\ callLog' = IF undrained THEN Append(callLog, <<writer.action, writer.id>>)
                ELSE callLog
  /\ UNCHANGED <<timeEntries, nextEntryId, now, online, syncInProgress, pass,
                 applied, exhausted, persisted, undrained,
                 syncReturn,
                 dvars>>

\* Variant of ClearPendingData: the time entries are cleared with the queue.
ClearPendingDataAndEntries ==
  /\ syncQueue' = {}
  /\ sent' = [q \in 1..MaxWrites |-> 0]
  /\ timeEntries' = {}
  /\ undrained' = FALSE
  /\ callLog' = <<>>
  /\ UNCHANGED <<nextEntryId, nextQueueId, now, online,
                 syncInProgress, pass, writer, applied, exhausted, persisted,
                 syncReturn, evars>>

\* SyncService.clearPendingData(): offlineDb.clearSyncQueue()
ClearPendingData ==
  /\ syncQueue' = {}
  /\ sent' = [q \in 1..MaxWrites |-> 0]
  /\ undrained' = FALSE
  /\ callLog' = <<>>
  /\ UNCHANGED <<timeEntries, nextEntryId, nextQueueId, now, online,
                 syncInProgress, pass, writer, applied, exhausted, persisted, syncReturn,
                 evars>>

(* ----------------------- synchronisation engine ----------------------- *)

\* Variant of Busy: the guard is missing.
BusyNever == FALSE

\* if (this.syncInProgress) { ...; return false; }
Busy == syncInProgress

\* Variant of SyncItemThrows: "create" without the isOfflineTimeEntry check.
SyncItemThrowsUnchecked(item) ==
  \/ item.table # "timeEntry"
  \/ item.action \notin Actions

\* syncItem/syncTimeEntry throw before any remote call: a "create" whose
\* payload fails isOfflineTimeEntry (the table is always "timeEntry" and the
\* action one of the three, so the two default branches are not reached).
SyncItemThrows(item) ==
  \/ item.table # "timeEntry"
  \/ item.action = "create" /\ ~item.valid
  \/ item.action \notin Actions

\* Variant of FirstAwait: `>` for `>=` in the exhaustion test.
FirstAwaitOffByOne(item) ==
  IF item.retryCount > maxRetries THEN "drop"
  ELSE IF SyncItemThrows(item) THEN "incr"
  ELSE "fetch"

\* The await the loop body of syncPendingData suspends at for `item`:
\* markSyncItemCompleted of an exhausted item ("drop"), incrementSyncRetry
\* after syncItem threw ("incr"), or the fetch of the remote call ("fetch").
FirstAwait(item) ==
  IF item.retryCount >= maxRetries THEN "drop"
  ELSE IF SyncItemThrows(item) THEN "incr"
  ELSE "fetch"

\* The index of the item the for...of loop takes after item i.
NextIndex(i) == i + 1

\* Variant of BackoffDelay: the delay grows from the counter itself.
BackoffDelayFromCount(item) == retryDelay * item.retryCount

\* this.delay(this.retryDelay * (item.retryCount + 1))
BackoffDelay(item) == retryDelay * (item.retryCount + 1)

\* The for...of loop over pendingItems from index i up to its next await;
\* past the last item: return true, and finally resets syncInProgress.
Continue(s, items, i) ==
  IF i > Len(items)
    THEN /\ pass' = [pass EXCEPT ![s] = IdleFrame]
         /\ syncInProgress' = FALSE
         /\ syncReturn' = "true"
    ELSE /\ pass' = [pass EXCEPT ![s] =
                       [pc |-> FirstAwait(items[i]), items |-> items, i |-> i,
                        ms |-> 0]]
         /\ UNCHANGED <<syncInProgress, syncReturn>>

\* Variant of SyncPendingData: the busy test sits inside the try block, so
\* the finally of a rejected call resets syncInProgress.
SyncPendingDataGuardInTry ==
  IF Busy
    THEN /\ syncReturn' = "false"
         /\ syncInProgress' = FALSE
         /\ UNCHANGED <<pass, undrained, callLog>>
    ELSE /\ \E s \in Slots :
              /\ pass[s].pc = "idle"
              /\ \A r \in Slots : r < s => pass[r].pc # "idle"
              /\ pass' = [pass EXCEPT ![s] = [IdleFrame EXCEPT !.pc = "read"]]
         /\ syncInProgress' = TRUE
         /\ undrained' = FALSE
         /\ callLog' = <<>>
         /\ UNCHANGED syncReturn

\* syncPendingData() up to its first await (getPendingSyncItems).
SyncPendingData ==
  IF Busy
    THEN /\ syncReturn' = "false"
         /\ UNCHANGED <<syncInProgress, pass, undrained, callLog>>
    ELSE /\ \E s \in Slots :
              /\ pass[s].pc = "idle"
              /\ \A r \in Slots : r < s => pass[r].pc # "idle"
              /\ pass' = [pass EXCEPT ![s] = [IdleFrame EXCEPT !.pc = "read"]]
         /\ syncInProgress' = TRUE
         /\ undrained' = FALSE
         /\ callLog' = <<>>
         /\ UNCHANGED syncReturn

\* window "online" listener: syncWhenOnline()
SyncWhenOnline ==
  /\ IF online THEN SyncPendingData
     ELSE UNCHANGED <<syncInProgress, pass, undrained, callLog, syncReturn>>
  /\ UNCHANGED <<timeEntries, nextEntryId, syncQueue, nextQueueId, now, online,
                 writer, applied, exhausted, persisted,
                 dvars>>

\* setInterval callback, every 30 seconds
TimerTick ==
  /\ IF online /\ ~syncInProgress THEN SyncPendingData
     ELSE UNCHANGED <<syncInProgress, pass, undrained, callLog, syncReturn>>
  /\ UNCHANGED <<timeEntries, nextEntryId, syncQueue, nextQueueId, now, online,
                 writer, applied, exhausted, persisted,
                 dvars>>

\* forcSync(), which is triggerSync() of useSyncService
ForcSync ==
  /\ SyncPendingData
  /\ UNCHANGED <<timeEntries, nextEntryId, syncQueue, nextQueueId, now, online,
                 writer, applied, exhausted, persisted,
                 dvars>>

\* await offlineDb.getPendingSyncItems() resolves
ReadQueue(s) ==
  /\ pass[s].pc = "read"
  /\ Continue(s, getPendingSyncItems, 1)
  /\ UNCHANGED <<timeEntries, nextEntryId, syncQueue, nextQueueId, now, online,
                 writer, applied, exhausted, persisted, callLog, undrained,
                 dvars>>

\* Variant of DropItem: the record the item refers to is deleted with it.
DropItemWithRecord(s) ==
  /\ pass[s].pc = "drop"
  /\ LET f == pass[s] IN
       /\ syncQueue' = markSyncItemCompleted(f.items[f.i].id)
       /\ sent' = [sent EXCEPT ![f.items[f.i].id] = 0]
       /\ timeEntries' =
            {e \in timeEntries : IdString(e.id) # f.items[f.i].recordId}
       /\ exhausted' = exhausted \cup {f.items[f.i].id}
       /\ Continue(s, f.items, NextIndex(f.i))
  /\ UNCHANGED <<nextEntryId, nextQueueId, now, online, writer,
                 applied, persisted, callLog, undrained, evars>>

\* await offlineDb.markSyncItemCompleted(item.id) of an exhausted item
DropItem(s) ==
  /\ pass[s].pc = "drop"
  /\ LET f == pass[s] IN
       /\ syncQueue' = markSyncItemCompleted(f.items[f.i].id)
       /\ sent' = [sent EXCEPT ![f.items[f.i].id] = 0]
       /\ exhausted' = exhausted \cup {f.items[f.i].id}
       /\ Continue(s, f.items, NextIndex(f.i))
  /\ UNCHANGED <<timeEntries, nextEntryId, nextQueueId, now, online, writer,
                 applied, persisted, callLog, undrained,
                 evars>>

\* The gateway answered a request for queue entry q: counted for an entry
\* that is in the queue, up to one past maxRetries.
Answered(q) ==
  IF (\E item \in syncQueue : item.id = q) /\ sent[q] <= maxRetries
    THEN [sent EXCEPT ![q] = @ + 1]
    ELSE sent

\* The remote call of syncItem resolves.  "ok": the server applied the
\* request and the client sees a 2xx response; "fail": the request was not
\* applied (network error or non-2xx); "lost": the server applied it and the
\* client sees a failure (the response did not arrive).
RemoteCall(s) ==
  /\ pass[s].pc = "fetch"
  /\ LET f == pass[s]
         q == f.items[f.i].id
     IN \E outcome \in {"ok", "fail", "lost"} :
          /\ outcome = "ok" => online
          /\ outcome # "fail" => applied[q] < MaxApplied
          /\ applied' = IF outcome = "fail" THEN applied
                        ELSE [applied EXCEPT ![q] = applied[q] + 1]
          /\ sent' = Answered(q)
          /\ pass' = [pass EXCEPT ![s].pc =
                        IF outcome = "ok" THEN "done" ELSE "incr"]
  /\ UNCHANGED <<timeEntries, nextEntryId, syncQueue, nextQueueId, now, online,
                 syncInProgress, writer, exhausted, persisted, callLog,
                 undrained, syncReturn,
                 evars>>

\* await offlineDb.markSyncItemCompleted(item.id) after syncItem returned
CompleteItem(s) ==
  /\ pass[s].pc = "done"
  /\ LET f == pass[s] IN
       /\ syncQueue' = markSyncItemCompleted(f.items[f.i].id)
       /\ sent' = [sent EXCEPT ![f.items[f.i].id] = 0]
       /\ Continue(s, f.items, NextIndex(f.i))
  /\ UNCHANGED <<timeEntries, nextEntryId, nextQueueId, now, online, writer,
                 applied, exhausted, persisted, callLog, undrained,
                 evars>>

\* await offlineDb.incrementSyncRetry(item.id) in the catch block, then the
\* backoff delay is started
RetryItem(s) ==
  /\ pass[s].pc = "incr"
  /\ syncQueue' = incrementSyncRetry(pass[s].items[pass[s].i].id)
  /\ pass' = [pass EXCEPT ![s].pc = "delay",
                          ![s].ms = BackoffDelay(pass[s].items[pass[s].i])]
  /\ UNCHANGED <<timeEntries, nextEntryId, nextQueueId, now, online,
                 syncInProgress, writer, applied, exhausted, persisted, callLog,
                 undrained, syncReturn,
                 dvars>>

\* Variant of DelayOver: the catch sits outside the loop, so a failure ends
\* the pass.
DelayOverAborts(s) ==
  /\ pass[s].pc = "delay"
  /\ pass' = [pass EXCEPT ![s] = IdleFrame]
  /\ syncInProgress' = FALSE
  /\ syncReturn' = "false"
  /\ UNCHANGED <<timeEntries, nextEntryId, syncQueue, nextQueueId, now, online,
                 writer, applied, exhausted, persisted, callLog, undrained,
                 dvars>>

\* await this.delay(...) resolves
DelayOver(s) ==
  /\ pass[s].pc = "delay"
  /\ Continue(s, pass[s].items, NextIndex(pass[s].i))
  /\ UNCHANGED <<timeEntries, nextEntryId, syncQueue, nextQueueId, now, online,
                 writer, applied, exhausted, persisted, callLog, undrained,
                 dvars>>

(* ---------------------------- environment ----------------------------- *)

\* navigator.onLine changes
Connectivity ==
  /\ online' = ~online
  /\ UNCHANGED <<timeEntries, nextEntryId, syncQueue, nextQueueId, now,
                 syncInProgress, pass, writer, applied, exhausted, persisted,
                 callLog, undrained, syncReturn,
                 dvars>>

\* The page is closed or reloaded: the tables persist, and the SyncService
\* singleton and every suspended handler are gone.
Crash ==
  /\ syncInProgress' = FALSE
  /\ pass' = [s \in Slots |-> IdleFrame]
  /\ writer' = IdleWriter
  /\ syncReturn' = "none"
  /\ UNCHANGED <<timeEntries, nextEntryId, syncQueue, nextQueueId, now, online,
                 applied, exhausted, persisted, callLog, undrained,
                 dvars>>

\* syncQueue.add of addToSyncQueue rejects (storage error): the write
\* throws to its caller after its time-entry write was made.
EnqueueFails ==
  /\ writer.pc = "enqueue"
  /\ writer' = IdleWriter
  /\ UNCHANGED <<timeEntries, nextEntryId, syncQueue, nextQueueId, now, online,
                 syncInProgress, pass, applied, exhausted, persisted, callLog,
                 undrained, syncReturn,
                 dvars>>

Next ==
  \/ AddTimeEntry
  \/ UpdateTimeEntry
  \/ DeleteTimeEntry
  \/ Enqueue
  \/ ClearPendingData
  \/ SyncWhenOnline
  \/ TimerTick
  \/ ForcSync
  \/ \E s \in Slots : ReadQueue(s)
  \/ \E s \in Slots : DropItem(s)
  \/ \E s \in Slots : RemoteCall(s)
  \/ \E s \in Slots : CompleteItem(s)
  \/ \E s \in Slots : RetryItem(s)
  \/ \E s \in Slots : DelayOver(s)
  \/ Connectivity

Spec == Init /\ [][Next]_vars

\* The same program with the page closing and storage errors.
NextFaulty ==
  \/ Next
  \/ Crash
  \/ EnqueueFails

SpecFaulty == Init /\ [][NextFaulty]_vars

(* ------------------- users, entry form and download ------------------- *)

\* saveUser(user) up to its first await: users.where("email").equals(email)
\* .first() is issued.  The form calls it for the session user when getUser
\* found no cached user; the form of a second tab does the same.
SaveUser(k) ==
  /\ saver[k].pc = "idle"
  /\ \A u \in users : u.email # SessionEmail
  /\ saver' = [saver EXCEPT
                 ![k] = [pc |-> "lookup", email |-> SessionEmail, found |-> 0]]
  /\ UNCHANGED <<timeEntries, nextEntryId, syncQueue, nextQueueId, now, online,
                 syncInProgress, pass, writer, applied, exhausted, persisted,
                 callLog, undrained, syncReturn, users, nextUserId, dl,
                 dlCalls, dlReturn, stable, xvars, sent>>

\* The emails saveUser is called with.
Emails == {"u1", "u2"}

\* saveUser(user) called by any caller, for any email, to its first await.
SaveUserAny(k) ==
  /\ saver[k].pc = "idle"
  /\ now < MaxSaves
  /\ \E email \in Emails :
       saver' = [saver EXCEPT
                   ![k] = [pc |-> "lookup", email |-> email, found |-> 0]]
  /\ UNCHANGED <<timeEntries, nextEntryId, syncQueue, nextQueueId, now, online,
                 syncInProgress, pass, writer, applied, exhausted, persisted,
                 callLog, undrained, syncReturn, users, nextUserId, dl,
                 dlCalls, dlReturn, stable, xvars, sent>>

\* The lookup of saveUser resolves: existingUser, or none (0).
SaveUserLookup(k) ==
  /\ saver[k].pc = "lookup"
  /\ saver' = [saver EXCEPT
                 ![k].pc = "write",
                 ![k].found =
                    IF \E u \in users : u.email = saver[k].email
                      THEN (CHOOSE u \in users : u.email = saver[k].email).id
                      ELSE 0]
  /\ UNCHANGED <<timeEntries, nextEntryId, syncQueue, nextQueueId, now, online,
                 syncInProgress, pass, writer, applied, exhausted, persisted,
                 callLog, undrained, syncReturn, users, nextUserId, dl,
                 dlCalls, dlReturn, stable, xvars, sent>>

\* The second await of saveUser resolves: users.update(existingUser.id, ...)
\* or users.add(...), either with lastSync: new Date().  The email index of
\* the users table is not a unique one.
SaveUserWrite(k) ==
  /\ saver[k].pc = "write"
  /\ now' = now + 1
  /\ IF saver[k].found # 0
       THEN /\ users' = {IF u.id = saver[k].found
                           THEN [u EXCEPT !.email = saver[k].email,
                                          !.lastSync = now']
                           ELSE u : u \in users}
            /\ UNCHANGED nextUserId
       ELSE /\ users' = users \cup
                 {[id |-> nextUserId, email |-> saver[k].email,
                   lastSync |-> now']}
            /\ nextUserId' = nextUserId + 1
  /\ saver' = [saver EXCEPT ![k] = IdleSaver]
  /\ UNCHANGED <<timeEntries, nextEntryId, syncQueue, nextQueueId, online,
                 syncInProgress, pass, writer, applied, exhausted, persisted,
                 callLog, undrained, syncReturn, dl, dlCalls, dlReturn, stable,
                 xvars, sent>>

\* The fields of the entry form: a day and two "HH:MM" times.
FormInputs ==
  [day : {1}, started : {<<9, 0>>}, ended : {<<8, 0>>, <<12, 30>>},
   studies : {<<>>}, participated : {FALSE}, comments : {""}]

\* if (timeEnded <= timeStarted) { setMessage(...); return; }
FormAccepts(input) ==
  SetHours(DateOf(input.day), input.ended) >
    SetHours(DateOf(input.day), input.started)

\* onSubmit of the entry form on its offline path (saveOffline), from the
\* cached user that getUser returned up to the first await of addTimeEntry.
\* A submission the form turns away changes nothing.
SaveOffline ==
  /\ \E u \in users : u.email = SessionEmail
  /\ AddTimeEntryOf({FormEntry(SessionEmail, input) :
                       input \in {i \in FormInputs : FormAccepts(i)}})

\* The updates explored for a direct updateTimeEntry call: none, an end
\* time before the 09:00 start, and a later end time.
Updates ==
  {NoUpdates,
   [timeEnded |-> SetHours(DateOf(1), <<8, 0>>)],
   [timeEnded |-> SetHours(DateOf(1), <<13, 30>>)]}

\* updateTimeEntry(id, updates) called with any key: one the table handed
\* out, or the next one, which no record has.
UpdateTimeEntryAny == UpdateTimeEntryOf(1..nextEntryId, Updates)

\* deleteTimeEntry(id) called with any key.
DeleteTimeEntryAny == DeleteTimeEntryOf(1..nextEntryId)

\* The JSON form of a server timestamp (Date.prototype.toISOString).
ToIso(instant) == <<"iso", instant>>

\* new Date(isoString)
ParseDate(iso) == iso[2]

\* A ServerTimeEntry of the monthly route: the server keeps hoursWorked as
\* it computed it from the two times.
ServerEntry(day, started, ended) ==
  LET e == FormEntry("", [DefaultInput EXCEPT !.day = day, !.started = started,
                                              !.ended = ended])
  IN  [date |-> ToIso(e.date), timeStarted |-> ToIso(e.timeStarted),
       timeEnded |-> ToIso(e.timeEnded), hoursWorked |-> e.hoursWorked,
       studies |-> [k \in 1..Len(e.studies) |-> [participant |-> e.studies[k]]],
       participated |-> e.participated, comments |-> e.comments]

\* data.entries of GET /api/entries/monthly for the i-th month fetched.  The
\* newest month holds the 09:00 entry of day 1 twice (a create replayed
\* twice), the month before it one entry, the oldest none.
ServerEntries(m) ==
  CASE m = 1 -> <<ServerEntry(1, <<9, 0>>, <<12, 30>>),
                  ServerEntry(1, <<9, 0>>, <<12, 30>>)>>
    [] m = 2 -> <<ServerEntry(2, <<9, 0>>, <<10, 0>>)>>
    [] OTHER -> <<>>

\* Variant of OfflineEntryOf: the downloaded record counts as unsynced.
OfflineEntryUnsynced(userId, entry) ==
  [userId |-> userId, date |-> ParseDate(entry.date),
   timeStarted |-> ParseDate(entry.timeStarted),
   timeEnded |-> ParseDate(entry.timeEnded),
   hoursWorked |-> entry.hoursWorked,
   studies |-> [k \in 1..Len(entry.studies) |-> entry.studies[k].participant],
   participated |-> entry.participated, comments |-> entry.comments,
   synced |-> FALSE]

\* offlineEntry of downloadServerData: the server entry with its dates
\* parsed, the caller's userId and synced: true.
OfflineEntryOf(userId, entry) ==
  [userId |-> userId, date |-> ParseDate(entry.date),
   timeStarted |-> ParseDate(entry.timeStarted),
   timeEnded |-> ParseDate(entry.timeEnded),
   hoursWorked |-> entry.hoursWorked,
   studies |-> [k \in 1..Len(entry.studies) |-> entry.studies[k].participant],
   participated |-> entry.participated, comments |-> entry.comments,
   synced |-> TRUE]

\* Two records have the same (owner, date, start) triple.
SameTriple(a, b) ==
  /\ a.userId = b.userId
  /\ a.date = b.date
  /\ a.timeStarted = b.timeStarted

\* timeEntries.where("userId").equals(userId).and(same date and start).first()
\* finds a record.
Existing(entry) == \E e \in timeEntries : SameTriple(e, entry)

\* Where a download frame suspends next when it is about to look at entry k
\* of the month's list: the exists-check of that entry, the fetch of the
\* next month, or, after the last month, updateLastSyncTime.
DownloadStep(f, entries, k) ==
  IF k <= Len(entries)
    THEN [f EXCEPT !.pc = "check", !.entries = entries, !.k = k]
  ELSE IF f.m < MonthCount
    THEN [f EXCEPT !.pc = "fetch", !.m = f.m + 1, !.entries = <<>>, !.k = 0]
  ELSE [f EXCEPT !.pc = "touch", !.entries = <<>>, !.k = 0]

\* Variant of OfflineGuard: the connectivity test is missing.
OfflineGuardMissing == FALSE

\* if (!navigator.onLine) throw new Error("Cannot download data while offline")
OfflineGuard == ~online

\* downloadServerData(userId) up to its first await: it throws when offline,
\* else the fetch of the newest month is issued.
DownloadServerData(userId) ==
  /\ dl.pc = "idle"
  /\ dlCalls < MaxDownloads
  /\ dlCalls' = dlCalls + 1
  /\ IF OfflineGuard
       THEN /\ dlReturn' = "offline"
            /\ UNCHANGED dl
       ELSE /\ dlReturn' = "pending"
            /\ dl' = [IdleDownload EXCEPT !.pc = "fetch", !.userId = userId,
                                          !.m = 1]
  /\ UNCHANGED <<timeEntries, nextEntryId, syncQueue, nextQueueId, now, online,
                 syncInProgress, pass, writer, applied, exhausted, persisted,
                 callLog, undrained, syncReturn, users, nextUserId, saver,
                 stable,
                 xvars, sent>>

\* await fetch(`/api/entries/monthly?...`) settles (and, for an ok response,
\* response.json()).  "reject": the fetch throws (network error), the catch
\* logs and rethrows.  "status": a response that is not ok; the body of
\* `if (response.ok)` is skipped and the loop goes on to the next month.
\* "ok": the loop over data.entries starts.
FetchMonth ==
  /\ dl.pc = "fetch"
  /\ \E outcome \in {"ok", "status", "reject"} :
       /\ outcome # "reject" => online
       /\ CASE outcome = "ok" ->
                 /\ dl' = DownloadStep(dl, ServerEntries(dl.m), 1)
                 /\ UNCHANGED dlReturn
            [] outcome = "status" ->
                 /\ dl' = DownloadStep([dl EXCEPT !.failed = TRUE], <<>>, 1)
                 /\ UNCHANGED dlReturn
            [] outcome = "reject" ->
                 /\ dl' = IdleDownload
                 /\ dlReturn' = "error"
  /\ UNCHANGED <<timeEntries, nextEntryId, syncQueue, nextQueueId, now, online,
                 syncInProgress, pass, writer, applied, exhausted, persisted,
                 callLog, undrained, syncReturn, users, nextUserId, saver,
                 dlCalls, stable,
                 xvars, sent>>

\* The exists-check of entry k resolves: `existing` or undefined.
CheckExisting ==
  /\ dl.pc = "check"
  /\ dl' = IF Existing(OfflineEntryOf(dl.userId, dl.entries[dl.k]))
             THEN DownloadStep(dl, dl.entries, dl.k + 1)
             ELSE [dl EXCEPT !.pc = "add"]
  /\ UNCHANGED <<timeEntries, nextEntryId, syncQueue, nextQueueId, now, online,
                 syncInProgress, pass, writer, applied, exhausted, persisted,
                 callLog, undrained, syncReturn, users, nextUserId, saver,
                 dlCalls, dlReturn, stable,
                 xvars, sent>>

\* await offlineDb.timeEntries.add(offlineEntry) resolves
InsertEntry ==
  /\ dl.pc = "add"
  /\ LET entry == OfflineEntryOf(dl.userId, dl.entries[dl.k]) IN
       timeEntries' = timeEntries \cup
         {EntryRecord(nextEntryId, entry, entry.synced)}
  /\ nextEntryId' = nextEntryId + 1
  /\ dl' = DownloadStep(dl, dl.entries, dl.k + 1)
  /\ UNCHANGED <<syncQueue, nextQueueId, now, online,
                 syncInProgress, pass, writer, applied, exhausted, persisted,
                 callLog, undrained, syncReturn, users, nextUserId, saver,
                 dlCalls, dlReturn, stable,
                 xvars, sent>>

\* await offlineDb.updateLastSyncTime(userId) resolves: the user cached
\* under that email, if there is one, gets lastSync: new Date(); then
\* downloadServerData returns.  saveUser is the only other writer of
\* lastSync and writes the whole field, so the lookup and the update are one
\* step.
UpdateLastSyncTime ==
  /\ dl.pc = "touch"
  /\ now' = now + 1
  /\ users' = {IF u.email = dl.userId THEN [u EXCEPT !.lastSync = now'] ELSE u :
                 u \in users}
  /\ dl' = IdleDownload
  /\ dlReturn' = "ok"
  /\ UNCHANGED <<timeEntries, nextEntryId, syncQueue, nextQueueId, online,
                 syncInProgress, pass, writer, applied, exhausted, persisted,
                 callLog, undrained, syncReturn, nextUserId, saver, dlCalls,
                 stable,
                 xvars, sent>>

\* The store under the entry form and direct calls of its write operations,
\* without the drain pass and the download.
NextStore ==
  \/ SaveUser(1)
  \/ SaveUserLookup(1)
  \/ SaveUserWrite(1)
  \/ SaveOffline
  \/ UpdateTimeEntryAny
  \/ DeleteTimeEntryAny
  \/ Enqueue
  \/ ClearPendingData
  \/ Connectivity

SpecStore == Init /\ [][NextStore]_vars

\* The download beside the entry form, without the drain pass.
NextDownload ==
  \/ SaveUser(1)
  \/ SaveUserLookup(1)
  \/ SaveUserWrite(1)
  \/ SaveOffline
  \/ Enqueue
  \/ ClearPendingData
  \/ \E userId \in {SessionEmail} : DownloadServerData(userId)
  \/ FetchMonth
  \/ CheckExisting
  \/ InsertEntry
  \/ UpdateLastSyncTime
  \/ Connectivity

SpecDownload == Init /\ [][NextDownload]_vars

(* ----------------------------- convergence ---------------------------- *)

\* Connectivity returns and stays, and from here on the gateway accepts
\* every request.
Stabilize ==
  /\ ~stable
  /\ stable' = TRUE
  /\ online' = TRUE
  /\ UNCHANGED <<timeEntries, nextEntryId, syncQueue, nextQueueId, now,
                 syncInProgress, pass, writer, applied, exhausted, persisted,
                 callLog, undrained, syncReturn, users, nextUserId, saver, dl,
                 dlCalls, dlReturn,
                 xvars, sent>>

\* Variant of AcceptedCall: the pass treats the accepted call as failed.
AcceptedCallCountsAsFailure(s) ==
  /\ pass[s].pc = "fetch"
  /\ LET q == pass[s].items[pass[s].i].id IN
       applied' = [applied EXCEPT
                     ![q] = IF applied[q] < MaxApplied THEN applied[q] + 1
                            ELSE applied[q]]
  /\ sent' = Answered(pass[s].items[pass[s].i].id)
  /\ pass' = [pass EXCEPT ![s].pc = "incr"]
  /\ UNCHANGED <<timeEntries, nextEntryId, syncQueue, nextQueueId, now, online,
                 syncInProgress, writer, exhausted, persisted, callLog,
                 undrained, syncReturn, evars>>

\* The remote call of syncItem resolves while the gateway accepts every
\* request: the server applied it and the client sees a 2xx response
\* (`applied` counts up to MaxApplied).
AcceptedCall(s) ==
  /\ pass[s].pc = "fetch"
  /\ LET q == pass[s].items[pass[s].i].id IN
       applied' = [applied EXCEPT
                     ![q] = IF applied[q] < MaxApplied THEN applied[q] + 1
                            ELSE applied[q]]
  /\ sent' = Answered(pass[s].items[pass[s].i].id)
  /\ pass' = [pass EXCEPT ![s].pc = "done"]
  /\ UNCHANGED <<timeEntries, nextEntryId, syncQueue, nextQueueId, now, online,
                 syncInProgress, writer, exhausted, persisted, callLog,
                 undrained, syncReturn, evars>>

\* An entry is saved while offline, before connectivity settles.
AddWhileOffline == ~online /\ ~stable /\ AddTimeEntry

\* A remote call resolves before the gateway has settled: any outcome.
UnsettledCall(s) == ~stable /\ RemoteCall(s)

\* A remote call resolves after the gateway has settled.
SettledCall(s) == stable /\ AcceptedCall(s)

\* navigator.onLine changes before connectivity has settled.
UnsettledConnectivity == ~stable /\ Connectivity

\* Entries are saved while offline, then the drain pass runs against a
\* gateway that fails at will until connectivity and gateway settle.
\* clearPendingData is not called.
NextConverge ==
  \/ AddWhileOffline
  \/ Enqueue
  \/ SyncWhenOnline
  \/ TimerTick
  \/ ForcSync
  \/ \E s \in Slots : ReadQueue(s)
  \/ \E s \in Slots : DropItem(s)
  \/ \E s \in Slots : UnsettledCall(s)
  \/ \E s \in Slots : SettledCall(s)
  \/ \E s \in Slots : CompleteItem(s)
  \/ \E s \in Slots : RetryItem(s)
  \/ \E s \in Slots : DelayOver(s)
  \/ UnsettledConnectivity
  \/ Stabilize

\* Every await of a pass settles, and the 30-second timer keeps firing.
Fairness ==
  /\ WF_vars(TimerTick)
  /\ \A s \in Slots :
       /\ WF_vars(ReadQueue(s))
       /\ WF_vars(DropItem(s))
       /\ WF_vars(SettledCall(s))
       /\ WF_vars(CompleteItem(s))
       /\ WF_vars(RetryItem(s))
       /\ WF_vars(DelayOver(s))

SpecConverge == Init /\ [][NextConverge]_vars /\ Fairness

(* ------------------------------ helpers ------------------------------- *)

\* The frames of the syncPendingData invocations that have not returned.
Running == {s \in Slots : pass[s].pc # "idle"}

\* The frames suspended inside the loop, and the item each is at.
InLoop == {s \in Slots : pass[s].pc \notin {"idle", "read"}}

Item(s) == pass[s].items[pass[s].i]

QueueIds == {q.id : q \in syncQueue}

(* ------------------------------- claims ------------------------------- *)

\* C1: at most one drain pass (syncPendingData) is executing at any time,
\* whichever of the three triggers fire and however they interleave; a pass
\* is executing exactly while syncInProgress is set.
C1_OneDrainPass ==
  /\ Cardinality(Running) <= 1
  /\ syncInProgress <=> Running # {}

\* A pass is suspended in its backoff delay and a trigger that arrived
\* meanwhile has been turned away.
C1_Witness ==
  /\ \E s \in Slots : pass[s].pc = "delay"
  /\ syncReturn = "false"

\* C2: while no drain pass and no clearPending has run, the sync queue holds
\* exactly one entry per store write that returned, in call order, each with
\* the call's action, the record's id as recordId, and retryCount 0.
C2_QueueMatchesCalls ==
  undrained =>
    LET items == getPendingSyncItems IN
      /\ Len(items) = Len(callLog)
      /\ Cardinality(syncQueue) = Len(callLog)
      /\ \A k \in 1..Len(callLog) :
           /\ items[k].action = callLog[k][1]
           /\ items[k].recordId = IdString(callLog[k][2])
           /\ items[k].retryCount = 0
           /\ items[k].id = k

\* A create followed by a write to the same record, both queued.
C2_Witness ==
  /\ undrained
  /\ Len(callLog) = 2
  /\ callLog[1] = <<"create", 1>>
  /\ callLog[2][1] \in {"update", "delete"}
  /\ callLog[2][2] = 1

\* C3: once no store write is in flight, every time-entry write made by
\* addTimeEntry/updateTimeEntry/deleteTimeEntry has its queue entry and every
\* queue entry its write, also after the page closed or the store failed
\* between the two steps of a write.
C3_WriteAtomicWithQueue ==
  writer.pc = "idle" => persisted = nextQueueId - 1

\* C4: a create queue entry the remote authority has applied is never sent
\* again, so the authority holds at most one record made from it, whatever
\* the gateway does (also when the response of an applied request is lost).
C4_CreateSentOnceApplied ==
  \A s \in Slots :
    (pass[s].pc = "fetch" /\ Item(s).action = "create") =>
      applied[Item(s).id] = 0

\* C5: a queue entry whose retryCount is >= maxRetries when a drain pass
\* reaches it is removed by that pass without a remote call, and no remote
\* call is made for it ever after.
C5_ExhaustedDropped ==
  /\ \A s \in InLoop :
       /\ Item(s).retryCount >= maxRetries <=> pass[s].pc = "drop"
       /\ pass[s].pc \in {"drop", "fetch"} =>
            \A q \in syncQueue : q.id = Item(s).id => q.retryCount = Item(s).retryCount
       /\ pass[s].pc \in {"fetch", "done", "incr", "delay"} =>
            Item(s).id \notin exhausted
  /\ exhausted \cap QueueIds = {}
  /\ \A q \in exhausted : q < nextQueueId

\* An entry has been given up on after its third failed attempt.
C5_Witness ==
  /\ exhausted # {}
  /\ \E s \in Slots : pass[s].pc = "delay"

\* The step is the failed-replay bookkeeping (incrementSyncRetry) of item q.
IsRetryStep(q) ==
  \E s \in Slots :
    /\ pass[s].pc = "incr"
    /\ pass'[s].pc = "delay"
    /\ Item(s).id = q

\* C6: a queue entry starts with retryCount 0; each failed replay attempt of
\* the entry adds exactly 1; no other step changes it, so it never decreases
\* while the entry exists.
C6_RetryMonotone ==
  [][ /\ \A n \in syncQueue' :
           IF n.id \in QueueIds
             THEN \A q \in syncQueue : q.id = n.id =>
                    n.retryCount =
                      IF IsRetryStep(q.id) THEN q.retryCount + 1 ELSE q.retryCount
             ELSE n.retryCount = 0
      /\ \A s \in Slots :
           (pass[s].pc = "incr" /\ pass'[s] # pass[s]) => pass'[s].pc = "delay"
    ]_vars

\* An entry has failed twice, and a second entry sits untouched beside it.
C6_Witness ==
  /\ \E q \in syncQueue : q.retryCount = 2
  /\ \E q \in syncQueue : q.retryCount = 0

\* The items of a frame are in strictly ascending timestamp order.
Ascending(items) ==
  \A j, k \in 1..Len(items) : j < k => items[j].timestamp < items[k].timestamp

\* C7: within one pass the entries are attempted in ascending enqueue
\* timestamp order, one at a time and each at most once: the loop moves from
\* entry N to entry N+1 only, after N's remote call and bookkeeping are over,
\* and the entries it works on are those it read at its start.
C7_OrderedOneAtATime ==
  /\ [](\A s \in InLoop :
          /\ Ascending(pass[s].items)
          /\ pass[s].i \in 1..Len(pass[s].items)
          /\ \A q \in syncQueue :
               (\A k \in 1..Len(pass[s].items) : pass[s].items[k].id # q.id)
                 => q.timestamp > pass[s].items[Len(pass[s].items)].timestamp)
  /\ [][\A s \in InLoop :
          pass'[s] # pass[s] =>
            \/ /\ pass'[s].items = pass[s].items
               /\ pass'[s].i = pass[s].i
               /\ <<pass[s].pc, pass'[s].pc>> \in
                    {<<"fetch", "done">>, <<"fetch", "incr">>, <<"incr", "delay">>}
            \/ /\ pass[s].pc \in {"drop", "done", "delay"}
               /\ pass[s].i < Len(pass[s].items)
               /\ pass'[s].items = pass[s].items
               /\ pass'[s].i = pass[s].i + 1
               /\ pass'[s].pc \in {"drop", "fetch", "incr"}
            \/ /\ pass[s].pc \in {"drop", "done", "delay"}
               /\ pass[s].i = Len(pass[s].items)
               /\ pass'[s] = IdleFrame
       ]_vars

\* The first entry was replayed and deleted, and the second one's remote
\* call is in flight.
C7_Witness ==
  \E s \in Slots :
    /\ pass[s].pc = "fetch"
    /\ pass[s].i = 2
    /\ pass[s].items[1].id \notin QueueIds
    /\ applied[pass[s].items[1].id] = 1

\* C8: a failed replay does not end the pass: after the failure the loop goes
\* through retry increment and backoff to the next entry, and a pass returns
\* only from its last entry (or at once, when it read an empty queue).
C8_FailureIsolated ==
  [][\A s \in Slots :
       /\ (pass[s].pc = "incr" /\ pass'[s] # pass[s]) =>
            /\ pass'[s] = [pass[s] EXCEPT !.pc = "delay",
                                          !.ms = BackoffDelay(Item(s))]
            /\ syncInProgress'
       /\ (pass[s].pc = "delay" /\ pass'[s] # pass[s]
             /\ pass[s].i < Len(pass[s].items)) =>
            /\ pass'[s].pc \in {"drop", "fetch", "incr"}
            /\ pass'[s].i = pass[s].i + 1
            /\ pass'[s].items = pass[s].items
            /\ syncInProgress'
       /\ (pass[s].pc # "idle" /\ pass'[s].pc = "idle") =>
            /\ \/ pass[s].pc = "read" /\ syncQueue = {}
               \/ pass[s].pc \in {"drop", "done", "delay"}
                    /\ pass[s].i = Len(pass[s].items)
            /\ syncReturn' = "true"
    ]_vars

\* The first entry failed (its retry count went up, it is still queued) and
\* the second entry of the same pass has been replayed.
C8_Witness ==
  \E s \in Slots :
    /\ pass[s].pc = "done"
    /\ pass[s].i = 2
    /\ \E q \in syncQueue :
         /\ q.id = pass[s].items[1].id
         /\ q.retryCount = pass[s].items[1].retryCount + 1

\* C9: triggerSync()/syncPendingData() called while a pass is in progress
\* returns false and changes nothing else: syncInProgress stays set, the
\* queue, its retry counters and the remote authority are untouched, and the
\* frame of the pass in flight is as it was.
C9_BusyRejected ==
  [][(syncInProgress /\ (ForcSync \/ SyncWhenOnline \/ TimerTick)) =>
       /\ syncReturn' \in {syncReturn, "false"}
       /\ (ForcSync \/ (online /\ SyncWhenOnline)) => syncReturn' = "false"
       /\ syncInProgress'
       /\ UNCHANGED <<timeEntries, nextEntryId, syncQueue, nextQueueId, now,
                      online, pass, writer, applied, exhausted, persisted>>
    ]_vars

\* A remote call is in flight and a call made meanwhile has returned false.
C9_Witness ==
  /\ syncInProgress
  /\ syncReturn = "false"
  /\ \E s \in Slots : pass[s].pc = "fetch"

\* C10: when a drain pass has replayed the create entry of a time entry that
\* is still in the local store, that time entry has synced = true.
C10_SyncedAfterCreate ==
  [][\A s \in Slots :
       (pass[s].pc = "done" /\ pass'[s] # pass[s] /\ Item(s).action = "create")
         => \A e \in timeEntries' :
              IdString(e.id) = Item(s).recordId => e.synced
    ]_vars

\* C17: the step that discards a queue entry for retry exhaustion removes
\* that queue entry and nothing else: every time entry, the one the queue
\* entry refers to included, is left exactly as it was (synced flag too).
C17_DropLeavesEntry ==
  [][\A s \in Slots :
       (pass[s].pc = "drop" /\ pass'[s] # pass[s]) =>
         /\ timeEntries' = timeEntries
         /\ nextEntryId' = nextEntryId
         /\ syncQueue' = {q \in syncQueue : q.id # Item(s).id}
    ]_vars

\* The create entry of time entry 1 was given up on, and time entry 1 is
\* still in the store, unsynced.
C17_Witness ==
  /\ 1 \in exhausted
  /\ \E e \in timeEntries : e.id = 1 /\ ~e.synced

\* C12: downloadServerData never inserts a record whose (owner, date, start)
\* triple is that of a record already in the local store: at every insert
\* of the download, no stored record has the triple of the inserted one.
C12_NoDuplicateTriple ==
  [][(dl.pc = "add" /\ dl' # dl) =>
       \A n \in timeEntries' \ timeEntries :
         ~\E e \in timeEntries : SameTriple(e, n)
    ]_vars

\* C13: when one of the monthly fetches of a download fails (network error
\* or a response that is not ok), the download aborts there: no call goes on
\* to a later month or to updateLastSyncTime after a failed fetch.
C13_FetchFailureAborts ==
  dl.pc # "idle" => ~dl.failed

\* C14: no step of downloadServerData adds, removes or modifies a sync-queue
\* entry, modifies or deletes a time entry that exists, or inserts a record
\* that is not synced = true under a fresh key.
C14_DownloadFrame ==
  [][(dl' # dl \/ dlCalls' # dlCalls) =>
       /\ syncQueue' = syncQueue
       /\ nextQueueId' = nextQueueId
       /\ timeEntries \subseteq timeEntries'
       /\ \A n \in timeEntries' \ timeEntries :
            /\ n.synced
            /\ \A e \in timeEntries : e.id # n.id
    ]_vars

\* The download has inserted a record beside an unsynced local entry whose
\* queue entry is waiting.
C14_Witness ==
  /\ \E e \in timeEntries : e.synced
  /\ \E e \in timeEntries : ~e.synced
  /\ syncQueue # {}

\* C15: downloadServerData called while offline fails at once with the
\* offline error: no fetch is issued (no frame of the call is left
\* suspended), and time entries, sync queue and users (last-sync timestamps)
\* are unchanged.
C15_OfflineDownloadFails ==
  [][(dlCalls' # dlCalls /\ ~online) =>
       /\ dl' = IdleDownload
       /\ dlReturn' = "offline"
       /\ UNCHANGED <<timeEntries, nextEntryId, syncQueue, nextQueueId, users,
                      nextUserId>>
    ]_vars

\* An offline call was turned away over a store that holds a user, a time
\* entry and a queue entry.
C15_Witness ==
  /\ dlReturn = "offline"
  /\ ~online
  /\ users # {}
  /\ timeEntries # {}
  /\ syncQueue # {}

\* C16: clearPendingData() leaves the sync queue empty, starts no remote call
\* (no drain pass, no fetch of a download, nothing applied remotely) and
\* leaves every time entry, synced flag included, and every user record
\* unchanged.
C16_ClearFrame ==
  [][ClearPendingData =>
       /\ syncQueue' = {}
       /\ UNCHANGED <<timeEntries, nextEntryId, users, nextUserId, pass, dl,
                      applied, syncInProgress>>
    ]_vars

\* The queue was cleared after something had been queued; the unsynced time
\* entry and the cached user are still there.
C16_Witness ==
  /\ ~undrained
  /\ syncQueue = {}
  /\ nextQueueId > 1
  /\ \E e \in timeEntries : ~e.synced
  /\ users # {}

\* C18: every time entry in the store has end > start after any sequence of
\* operations (an add or update whose result has end <= start is rejected
\* before anything is persisted).
C18_EndAfterStart ==
  \A e \in timeEntries : e.timeEnded > e.timeStarted

\* C19: the stored hoursWorked of every time entry is (end - start) /
\* 3,600,000 of the entry's current start and end.
C19_DurationDerived ==
  \A e \in timeEntries :
    e.hoursWorked = HoursWorked(e.timeStarted, e.timeEnded)

\* C20: no queue entry is an orphan: an update or delete entry names a key
\* the timeEntries table has handed out (updateTimeEntry/deleteTimeEntry of
\* an id that is not in the store enqueues nothing).
C20_NoOrphan ==
  \A q \in syncQueue :
    q.action # "create" => \E id \in AssignedIds : q.recordId = IdString(id)

\* The failed replay attempts of queue entry q so far: its retry counter,
\* and the failure of the pass that is about to increment it.
Failures(q) ==
  LET n == IF \E s \in Slots : pass[s].pc = "incr" /\ Item(s).id = q
             THEN 1 ELSE 0
  IN  IF \E e \in syncQueue : e.id = q
        THEN (CHOOSE e \in syncQueue : e.id = q).retryCount + n
        ELSE n

\* Queue entry q left the queue by a successful replay: the remote authority
\* applied it, and it was not given up on.
Replayed(q) ==
  /\ q \notin QueueIds
  /\ q \notin exhausted
  /\ applied[q] >= 1

NextUsers ==
  \/ \E k \in SaverSlots : SaveUserAny(k)
  \/ \E k \in SaverSlots : SaveUserLookup(k)
  \/ \E k \in SaverSlots : SaveUserWrite(k)

SpecUsers == Init /\ [][NextUsers]_vars

\* C22: the user cache never holds two records with the same email.
C22_UniqueEmail ==
  \A u \in users : \A v \in users : u.email = v.email => u.id = v.id

\* ---------------------------------------------------------------------------
\* retry budget

\* Requests made to the gateway for queue entry q so far: the answered ones
\* and the one awaiting its answer.
Sends(q) ==
  sent[q] + Cardinality({s \in Slots : pass[s].pc = "fetch" /\ Item(s).id = q})

\* C26: every queue entry has 0 <= retryCount <= maxRetries in every
\* reachable state, and while it is in the queue at most maxRetries requests
\* have been made to the gateway for it.
C26_RetryBudget ==
  \A item \in syncQueue :
    /\ item.retryCount \in 0..maxRetries
    /\ Sends(item.id) <= maxRetries

\* An entry that has used its budget: three requests, all failed.
C26_Witness ==
  \E item \in syncQueue :
    /\ item.retryCount = maxRetries
    /\ sent[item.id] = maxRetries

\* ---------------------------------------------------------------------------
\* malformed create payloads

\* A create queue entry whose payload fails isOfflineTimeEntry.
Malformed(item) == item.action = "create" /\ ~item.valid

\* C24: a create entry whose payload fails the shape check causes no remote
\* call: no frame awaits a request for it and the gateway has answered none.
\* The step that handles its failure raises its retry counter by one and
\* leaves it in the queue, and a pass removes it only when its retry counter
\* has reached maxRetries.
C24_MalformedCreate ==
  [][\A item \in syncQueue :
       Malformed(item) =>
         /\ sent'[item.id] = 0
         /\ \A s \in Slots :
              /\ pass'[s].pc \in {"fetch", "done"} =>
                   pass'[s].items[pass'[s].i].id # item.id
              /\ (pass[s].pc = "incr" /\ Item(s).id = item.id) =>
                   \/ pass'[s] = pass[s]
                   \/ \E after \in syncQueue' :
                        /\ after.id = item.id
                        /\ after.retryCount = item.retryCount + 1
         /\ (pass' # pass /\ item.id \notin {q.id : q \in syncQueue'}) =>
              item.retryCount >= maxRetries
    ]_vars

\* A malformed create after its failure was handled: counter raised, no
\* request made, the pass in its backoff delay.
C24_Witness ==
  \E item \in syncQueue : \E s \in Slots :
    /\ Malformed(item)
    /\ pass[s].pc = "delay"
    /\ Item(s).id = item.id
    /\ item.retryCount = Item(s).retryCount + 1
    /\ sent[item.id] = 0

\* ---------------------------------------------------------------------------
\* backoff

\* C27: after a failed replay of an entry whose retry counter was r before
\* the attempt the pass suspends for retryDelay * (r + 1) milliseconds, one
\* of 1000, 2000 and 3000, before the next entry; a frame is in a delay only
\* out of the failure's increment, never out of a successful replay or an
\* exhaustion drop.
C27_LinearBackoff ==
  [][\A s \in Slots :
       /\ pass'[s].pc = "delay" =>
            /\ pass[s].pc \in {"incr", "delay"}
            /\ pass'[s].ms = retryDelay * (pass'[s].items[pass'[s].i].retryCount + 1)
            /\ pass'[s].ms \in {1000, 2000, 3000}
            /\ \A item \in syncQueue :
                 (pass[s].pc = "incr" /\ item.id = Item(s).id) =>
                   pass'[s].ms = retryDelay * (item.retryCount + 1)
       /\ pass'[s].pc # "delay" => pass'[s].ms = 0
       /\ pass[s].pc \in {"done", "drop"} => pass'[s].pc # "delay"
    ]_vars

\* The third failure of an entry: the pass waits 3000 ms.
C27_Witness ==
  \E s \in Slots :
    /\ pass[s].pc = "delay"
    /\ pass[s].ms = 3000
    /\ Item(s).retryCount = 2

\* ---------------------------------------------------------------------------
\* a remote call that does not resolve

\* C29: while a remote call made by a pass has not resolved the engine stays
\* in its draining state: syncInProgress stays set, the pass takes no later
\* entry and no other pass is started, no entry is dropped or applied, and
\* a timer tick, online event or forcSync made meanwhile is skipped or
\* returns false.
C29_StuckWhileUnresolved ==
  [][\A s \in Slots :
       (pass[s].pc = "fetch" /\ pass'[s].pc = "fetch") =>
         /\ syncInProgress
         /\ syncInProgress'
         /\ pass' = pass
         /\ applied' = applied
         /\ exhausted' = exhausted
         /\ syncReturn' \in {syncReturn, "false"}
         /\ ForcSync => syncReturn' = "false"
    ]_vars

\* The call for the first of two entries is unresolved, a trigger made
\* meanwhile was rejected, and the second entry waits in the queue.
C29_Witness ==
  \E s \in Slots :
    /\ pass[s].pc = "fetch"
    /\ pass[s].i = 1
    /\ Len(pass[s].items) = 2
    /\ pass[s].items[2].id \in QueueIds
    /\ syncInProgress
    /\ syncReturn = "false"

\* ---------------------------------------------------------------------------
\* the entry form, online and offline

\* createTimeEntry(data), the server action, resolves: the remote authority
\* has created the entry (prisma.timeEntry.create).  It reads and writes
\* nothing of the local store.
CreateTimeEntry ==
  /\ direct < MaxDirect
  /\ \E input \in FormInputs : FormAccepts(input)
  /\ direct' = direct + 1
  /\ UNCHANGED <<timeEntries, nextEntryId, syncQueue, nextQueueId, now, online,
                 syncInProgress, pass, writer, applied, exhausted, persisted,
                 callLog, undrained, syncReturn, users, nextUserId, saver, dl,
                 dlCalls, dlReturn, stable, resolver, stats, sent, faults, dlOther>>

\* onSubmit of the entry form: while online the entry goes to the server
\* action, and saveOffline runs when that call throws or the form is offline.
OnSubmit ==
  \/ online /\ CreateTimeEntry
  \/ SaveOffline

\* The entry form beside the drain pass that the timer starts.
NextForm ==
  \/ SaveUser(1)
  \/ SaveUserLookup(1)
  \/ SaveUserWrite(1)
  \/ OnSubmit
  \/ Enqueue
  \/ TimerTick
  \/ \E s \in Slots : ReadQueue(s)
  \/ \E s \in Slots : DropItem(s)
  \/ \E s \in Slots : RemoteCall(s)
  \/ \E s \in Slots : CompleteItem(s)
  \/ \E s \in Slots : RetryItem(s)
  \/ \E s \in Slots : DelayOver(s)
  \/ Connectivity

SpecForm == Init /\ [][NextForm]_vars

\* C21: no time entry reaches the remote authority without first having
\* been written to the local store with its create queue entry: the remote
\* authority holds no entry that the form handed to it without a local write.
C21_LocalFirst == direct = 0

\* ---------------------------------------------------------------------------
\* resolveConflict

\* resolveConflict(entryId, "local") up to its first await:
\* timeEntries.get(entryId) is issued, for a key the table handed out or the
\* next one, which no record has.
ResolveConflictLocal ==
  /\ resolver.pc = "idle"
  /\ \E id \in 1..nextEntryId :
       resolver' = [pc |-> "get", id |-> id, entry |-> <<>>]
  /\ UNCHANGED <<timeEntries, nextEntryId, syncQueue, nextQueueId, now, online,
                 syncInProgress, pass, writer, applied, exhausted, persisted,
                 callLog, undrained, syncReturn, users, nextUserId, saver, dl,
                 dlCalls, dlReturn, stable, direct, stats, sent, faults, dlOther>>

\* timeEntries.get(entryId) resolves: with the record, and updateTimeEntry
\* (entryId, entry) issues its timeEntries.update; or with undefined, and
\* resolveConflict returns.
ResolveGet ==
  /\ resolver.pc = "get"
  /\ resolver' =
       IF \E e \in timeEntries : e.id = resolver.id
         THEN [resolver EXCEPT
                 !.pc = "update",
                 !.entry = CHOOSE e \in timeEntries : e.id = resolver.id]
         ELSE IdleResolver
  /\ UNCHANGED <<timeEntries, nextEntryId, syncQueue, nextQueueId, now, online,
                 syncInProgress, pass, writer, applied, exhausted, persisted,
                 callLog, undrained, syncReturn, users, nextUserId, saver, dl,
                 dlCalls, dlReturn, stable, direct, stats, sent, faults, dlOther>>

\* Variant of ResolveUpdate: the record is put back without updateTimeEntry,
\* so nothing is queued.
ResolveUpdateTableOnly ==
  /\ resolver.pc = "update"
  /\ writer.pc = "idle"
  /\ persisted < MaxWrites
  /\ timeEntries' = UpdateEntry(resolver.id, resolver.entry)
  /\ now' = now + 1
  /\ persisted' = persisted + 1
  /\ resolver' = IdleResolver
  /\ UNCHANGED <<nextEntryId, syncQueue, nextQueueId, online, syncInProgress,
                 pass, writer, applied, exhausted, callLog, undrained,
                 syncReturn, users, nextUserId, saver, dl, dlCalls, dlReturn,
                 stable, direct, stats, sent, faults, dlOther>>

\* The first await of updateTimeEntry(entryId, entry) resolves:
\* timeEntries.update(entryId, {...entry, synced: false}), then addToSyncQueue
\* reads the clock and issues syncQueue.add; resolveConflict has nothing
\* left to do but wait for it.
ResolveUpdate ==
  /\ resolver.pc = "update"
  /\ writer.pc = "idle"
  /\ persisted < MaxWrites
  /\ timeEntries' = UpdateEntry(resolver.id, resolver.entry)
  /\ now' = now + 1
  /\ writer' = [pc |-> "enqueue", action |-> "update", id |-> resolver.id,
                valid |-> TRUE, ts |-> now']
  /\ persisted' = persisted + 1
  /\ resolver' = IdleResolver
  /\ UNCHANGED <<nextEntryId, syncQueue, nextQueueId, online, syncInProgress,
                 pass, applied, exhausted, callLog, undrained,
                 syncReturn, users, nextUserId, saver, dl, dlCalls, dlReturn,
                 stable, direct, stats, sent, faults, dlOther>>

\* Variant of ResolveConflictServer: the record is deleted with
\* deleteTimeEntry, which queues a delete.
ResolveConflictServerQueued ==
  /\ resolver.pc = "idle"
  /\ DeleteTimeEntryOf(1..nextEntryId)

\* resolveConflict(entryId, "server"): timeEntries.delete(entryId), for any
\* key.
ResolveConflictServer ==
  /\ resolver.pc = "idle"
  /\ \E id \in 1..nextEntryId : timeEntries' = DeleteEntry(id)
  /\ UNCHANGED <<nextEntryId, syncQueue, nextQueueId, now, online,
                 syncInProgress, pass, writer, applied, exhausted, persisted,
                 callLog, undrained, syncReturn, dvars>>

\* downloadServerData is called once, for the session user.
DownloadOnce == dlCalls = 0 /\ DownloadServerData(SessionEmail)

\* resolveConflict beside the store's create and one download, which stores
\* records with synced = true.
NextConflict ==
  \/ AddTimeEntry
  \/ Enqueue
  \/ ResolveConflictLocal
  \/ ResolveGet
  \/ ResolveUpdate
  \/ ResolveConflictServer
  \/ DownloadOnce
  \/ FetchMonth
  \/ CheckExisting
  \/ InsertEntry
  \/ UpdateLastSyncTime

SpecConflict == Init /\ [][NextConflict]_vars

\* resolveConflict(entryId, "server") beside the form's writes and the drain
\* pass.
NextResolve ==
  \/ AddTimeEntry
  \/ Enqueue
  \/ ResolveConflictServer
  \/ TimerTick
  \/ \E s \in Slots : ReadQueue(s)
  \/ \E s \in Slots : DropItem(s)
  \/ \E s \in Slots : RemoteCall(s)
  \/ \E s \in Slots : CompleteItem(s)
  \/ \E s \in Slots : RetryItem(s)
  \/ \E s \in Slots : DelayOver(s)
  \/ Connectivity

SpecResolve == Init /\ [][NextResolve]_vars

\* C23: resolveConflict(id, "local") for an existing entry re-stages it
\* without changing its data: the table update leaves every field of the
\* entry but synced as it was and sets synced = false, no other record
\* changes, and exactly one update queue entry for id, with retryCount 0, is
\* appended; for an id that has no record nothing changes.
C23_ResolveLocalFrame ==
  [][/\ (resolver.pc = "get" /\ resolver'.pc # "get") =>
          /\ UNCHANGED <<timeEntries, nextEntryId, syncQueue, nextQueueId,
                         writer>>
          /\ resolver'.pc = "idle" <=>
               ~ \E e \in timeEntries : e.id = resolver.id
     /\ (resolver.pc = "update" /\ resolver'.pc # "update") =>
          /\ UNCHANGED <<syncQueue, nextQueueId, nextEntryId>>
          /\ writer'.pc = "enqueue"
          /\ writer'.action = "update"
          /\ writer'.id = resolver.id
          /\ Cardinality(timeEntries') = Cardinality(timeEntries)
          /\ \A e \in timeEntries :
               IF e.id = resolver.id
                 THEN [e EXCEPT !.synced = FALSE] \in timeEntries'
                 ELSE e \in timeEntries'
     /\ (writer.pc = "enqueue" /\ writer.action = "update"
           /\ writer'.pc = "idle") =>
          /\ UNCHANGED <<timeEntries, nextEntryId>>
          /\ \E item \in syncQueue' \ syncQueue :
               /\ syncQueue' = syncQueue \cup {item}
               /\ item.action = "update"
               /\ item.recordId = IdString(writer.id)
               /\ item.retryCount = 0
    ]_vars

\* A downloaded entry (no create was ever queued for it) after its local
\* version was chosen: synced = false and one update entry queued for it.
C23_Witness ==
  \E e \in timeEntries :
    /\ ~e.synced
    /\ resolver.pc = "idle"
    /\ writer.pc = "idle"
    /\ Cardinality({item \in syncQueue : item.recordId = IdString(e.id)}) = 1
    /\ \A item \in syncQueue :
         item.recordId = IdString(e.id) => item.action = "update"

\* Queue entries whose time entry is no longer in the local store.
Orphans ==
  {item \in syncQueue :
     ~ \E e \in timeEntries : IdString(e.id) = item.recordId}

\* C30: resolveConflict(id, "server") removes the local time entry and
\* leaves the sync queue unchanged: the step that takes a record out of the
\* table (no other operation here deletes) removes that one record, queues
\* no delete entry and starts no queue write, and the entries pending for
\* id stay in the queue, where a pass that reads the queue takes them with
\* the rest.
C30_ResolveServerFrame ==
  [][/\ (timeEntries' # timeEntries /\ timeEntries' \subseteq timeEntries) =>
          /\ UNCHANGED <<syncQueue, nextQueueId, writer, nextEntryId>>
          /\ Cardinality(timeEntries') = Cardinality(timeEntries) - 1
     /\ \A s \in Slots :
          (pass[s].pc = "read" /\ pass'[s].pc # "read") =>
            \A item \in Orphans :
              /\ pass'[s].pc # "idle"
              /\ \E k \in 1..Len(pass'[s].items) : pass'[s].items[k] = item
    ]_vars

\* The server version was chosen for an entry whose create was pending: the
\* record is gone, no delete is queued, and a pass is sending the create.
C30_Witness ==
  \E s \in Slots :
    /\ pass[s].pc = "fetch"
    /\ Item(s) \in Orphans
    /\ Item(s).action = "create"
    /\ \A item \in syncQueue : item.action # "delete"

\* ---------------------------------------------------------------------------
\* monthly and yearly reports

\* Variant of ToLowerCase: the names are counted as they were typed.
ToLowerCaseIdentity(name) == name

\* s.toLowerCase() of the participant names explored
ToLowerCase(name) ==
  CASE name = "Alice" -> "alice"
    [] name = "Bob" -> "bob"
    [] OTHER -> name

\* The calendar day of a date: days are counted from 30 December of the
\* model's first year, which is day 1, so 1 January of its second year is
\* day 3.
DayOf(date) == date \div MsPerDay

\* new Date(year, month - 1, 1) and new Date(year, month, 0, 23, 59, 59) as
\* the first and the last day of the month, for December of the first year
\* (month 12) and January of the second (month 1).  An entry's date is the
\* midnight of its day, so the two comparisons of the query compare days.
MonthDays(month) ==
  IF month = 12 THEN [first |-> 0 - 28, last |-> 2]
  ELSE [first |-> 3, last |-> 33]

\* new Date(year, 0, 1) and new Date(year, 11, 31, 23, 59, 59), for the
\* first year (1) and the second (2)
YearDays(year) ==
  IF year = 1 THEN [first |-> 0 - 362, last |-> 2]
  ELSE [first |-> 3, last |-> 367]

\* getTimeEntriesByMonth(userId, year, month)
getTimeEntriesByMonth(userId, month) ==
  {e \in timeEntries :
     /\ e.userId = userId
     /\ DayOf(e.date) >= MonthDays(month).first
     /\ DayOf(e.date) <= MonthDays(month).last}

\* getTimeEntriesByYear(userId, year)
getTimeEntriesByYear(userId, year) ==
  {e \in timeEntries :
     /\ e.userId = userId
     /\ DayOf(e.date) >= YearDays(year).first
     /\ DayOf(e.date) <= YearDays(year).last}

\* entries.reduce((sum, entry) => sum + entry.hoursWorked, 0), in tenths
RECURSIVE TotalHours(_)
TotalHours(entries) ==
  IF entries = {} THEN 0
  ELSE LET e == CHOOSE x \in entries : TRUE
       IN  e.hoursWorked + TotalHours(entries \ {e})

\* new Set(entries.flatMap((entry) => entry.studies.map((s) =>
\* s.toLowerCase())))
UniqueStudies(entries) ==
  UNION {{ToLowerCase(e.studies[k]) : k \in 1..Len(e.studies)} : e \in entries}

\* The months the monthly report is asked for, and the years of the yearly.
ReportMonths == {12, 1}

ReportYears == {1, 2}

\* calculateMonthlyStats(userId, year, month): its query resolves and the
\* report is returned.
CalculateMonthlyStats ==
  /\ \E userId \in Emails, month \in ReportMonths :
       LET entries == getTimeEntriesByMonth(userId, month) IN
         stats' = [kind |-> "monthly", userId |-> userId, month |-> month,
                   totalHours |-> TotalHours(entries),
                   studiesCount |-> Cardinality(UniqueStudies(entries)),
                   participated |-> \E e \in entries : e.participated,
                   entriesCount |-> Cardinality(entries),
                   entries |-> entries]
  /\ UNCHANGED <<timeEntries, nextEntryId, syncQueue, nextQueueId, now, online,
                 syncInProgress, pass, writer, applied, exhausted, persisted,
                 callLog, undrained, syncReturn, users, nextUserId, saver, dl,
                 dlCalls, dlReturn, stable, direct, resolver, sent, faults, dlOther>>

\* calculateYearlyStats(userId, year): its query resolves and the report is
\* returned (it has no participated field and does not return the entries).
CalculateYearlyStats ==
  /\ \E userId \in Emails, year \in ReportYears :
       LET entries == getTimeEntriesByYear(userId, year) IN
         stats' = [kind |-> "yearly", userId |-> userId, month |-> year,
                   totalHours |-> TotalHours(entries),
                   studiesCount |-> Cardinality(UniqueStudies(entries)),
                   participated |-> FALSE,
                   entriesCount |-> Cardinality(entries),
                   entries |-> {}]
  /\ UNCHANGED <<timeEntries, nextEntryId, syncQueue, nextQueueId, now, online,
                 syncInProgress, pass, writer, applied, exhausted, persisted,
                 callLog, undrained, syncReturn, users, nextUserId, saver, dl,
                 dlCalls, dlReturn, stable, direct, resolver, sent, faults, dlOther>>

\* The entries saved before a report: two users, the last days of December
\* and a day of January, names that differ in case only.
ReportInputs ==
  {<<"u1", [DefaultInput EXCEPT !.studies = <<"Alice", "alice">>]>>,
   <<"u1", [DefaultInput EXCEPT !.day = 2, !.studies = <<"Bob">>,
                                !.participated = TRUE]>>,
   <<"u1", [DefaultInput EXCEPT !.day = 3, !.studies = <<"alice", "Carol">>]>>,
   <<"u2", [DefaultInput EXCEPT !.studies = <<"bob">>, !.participated = TRUE]>>}

\* addTimeEntry for one of the report's entries
AddReportEntry ==
  AddTimeEntryOf({FormEntry(in[1], in[2]) : in \in ReportInputs})

NextStats ==
  \/ AddReportEntry
  \/ Enqueue
  \/ CalculateMonthlyStats
  \/ CalculateYearlyStats

SpecStats == Init /\ [][NextStats]_vars

\* Two participant names are the same name when they differ in case only.
SameName(a, b) ==
  \/ a = b
  \/ {a, b} = {"Alice", "alice"}
  \/ {a, b} = {"Bob", "bob"}

\* The number of distinct names, compared case-insensitively, among the
\* participants of a set of entries.
DistinctNames(entries) ==
  LET names == UNION {{e.studies[k] : k \in 1..Len(e.studies)} : e \in entries}
  IN  Cardinality({{b \in names : SameName(a, b)} : a \in names})

\* The entries of a user in the period of a report: December is the days
\* before 1 January (day 3), January the days from it, and so the years.
InPeriod(kind, userId, period) ==
  {e \in timeEntries :
     /\ e.userId = userId
     /\ \E day \in 1..24 :
          /\ e.date = DateOf(day)
          /\ IF (kind = "monthly" /\ period = 12) \/ (kind = "yearly" /\ period = 1)
               THEN day < 3
               ELSE day >= 3}

StoreFault ==
  /\ faults < MaxFaults
  /\ faults' = faults + 1
  /\ UNCHANGED <<timeEntries, nextEntryId, syncQueue, nextQueueId, now, online,
                 writer, applied, exhausted, persisted, callLog, undrained,
                 users, nextUserId, saver, dl, dlCalls, dlReturn, stable,
                 direct, resolver, stats, sent, dlOther>>

\* The outer catch and the finally of syncPendingData: an operation outside
\* the per-item try threw, the call returns false and syncInProgress is
\* reset.
Abort(s) ==
  /\ pass' = [pass EXCEPT ![s] = IdleFrame]
  /\ syncInProgress' = FALSE
  /\ syncReturn' = "false"
  /\ StoreFault

\* await offlineDb.getPendingSyncItems() rejects
ReadQueueFails(s) == pass[s].pc = "read" /\ Abort(s)

\* await offlineDb.markSyncItemCompleted(item.id) of an exhausted item
\* rejects: the call is outside the per-item try
DropItemFails(s) == pass[s].pc = "drop" /\ Abort(s)

\* await offlineDb.markSyncItemCompleted(item.id) after syncItem returned
\* rejects: the per-item catch takes it as a failed replay
CompleteItemFails(s) ==
  /\ pass[s].pc = "done"
  /\ pass' = [pass EXCEPT ![s].pc = "incr"]
  /\ StoreFault
  /\ UNCHANGED <<syncInProgress, syncReturn>>

\* Variant of RetryItemFails: the rejection leaves the call without running
\* the finally block.
RetryItemFailsNoFinally(s) ==
  /\ pass[s].pc = "incr"
  /\ pass' = [pass EXCEPT ![s] = IdleFrame]
  /\ syncReturn' = "false"
  /\ StoreFault
  /\ UNCHANGED syncInProgress

\* await offlineDb.incrementSyncRetry(item.id) in the catch block rejects
RetryItemFails(s) == pass[s].pc = "incr" /\ Abort(s)

\* An entry is saved before the first pass is started.
AddBeforePasses == undrained /\ AddTimeEntry

\* The drain pass, started by the timer, over a store whose operations may
\* reject, beside the store's create.
NextPass ==
  \/ AddBeforePasses
  \/ Enqueue
  \/ TimerTick
  \/ \E s \in Slots : ReadQueue(s)
  \/ \E s \in Slots : ReadQueueFails(s)
  \/ \E s \in Slots : DropItem(s)
  \/ \E s \in Slots : DropItemFails(s)
  \/ \E s \in Slots : RemoteCall(s)
  \/ \E s \in Slots : CompleteItem(s)
  \/ \E s \in Slots : CompleteItemFails(s)
  \/ \E s \in Slots : RetryItem(s)
  \/ \E s \in Slots : RetryItemFails(s)
  \/ \E s \in Slots : DelayOver(s)

\* Every await of a pass settles: a store operation resolves or rejects,
\* a remote call resolves with some outcome, a delay runs out.
PassFairness ==
  \A s \in Slots :
    /\ WF_vars(ReadQueue(s) \/ ReadQueueFails(s))
    /\ WF_vars(DropItem(s) \/ DropItemFails(s))
    /\ WF_vars(RemoteCall(s))
    /\ WF_vars(CompleteItem(s) \/ CompleteItemFails(s))
    /\ WF_vars(RetryItem(s) \/ RetryItemFails(s))
    /\ WF_vars(DelayOver(s))

SpecPass == Init /\ [][NextPass]_vars /\ PassFairness

\* C28: every drain pass that starts ends with syncInProgress = false,
\* provided each remote call and each backoff delay resolves: whenever
\* syncInProgress is set it is reset later, whether the queue is empty, the
\* entries fail or a local-store operation throws inside the pass.
C28_PassEnds == syncInProgress ~> ~syncInProgress

\* A pass that a rejected store operation ended: it returned false (not by
\* the busy guard, no pass is running) after an entry had failed.
C28_Witness ==
  /\ ~syncInProgress
  /\ syncReturn = "false"
  /\ \A s \in Slots : pass[s].pc = "idle"
  /\ \E item \in syncQueue : item.retryCount >= 1

\* ---------------------------------------------------------------------------
\* the return value of syncPendingData

\* The drain pass over a store whose operations may reject, started by the
\* timer and by forcSync, which is rejected while a pass runs.
NextReturn ==
  \/ NextPass
  \/ ForcSync

SpecReturn == Init /\ [][NextReturn]_vars

\* The call of frame s returns in this step.
Returns(s) == pass[s].pc # "idle" /\ pass'[s].pc = "idle"

\* C37: syncPendingData returns true for every pass that traversed its
\* whole snapshot, whatever the outcomes of its entries, and returns false
\* only when it was rejected as busy or a rejected local-store operation
\* escaped the per-entry handling.
C37_ReturnValue ==
  [][/\ \A s \in Slots :
          Returns(s) =>
            IF faults' = faults
              THEN /\ syncReturn' = "true"
                   /\ \/ pass[s].pc = "read" /\ syncQueue = {}
                      \/ pass[s].pc \in {"drop", "done", "delay"}
                           /\ pass[s].i = Len(pass[s].items)
              ELSE /\ syncReturn' = "false"
                   /\ pass[s].pc \in {"read", "drop", "incr"}
     /\ (syncReturn' = "false" /\ syncReturn # "false") =>
          \/ syncInProgress /\ pass' = pass /\ syncInProgress'
          \/ faults' = faults + 1 /\ \E s \in Slots : Returns(s)
     /\ (syncReturn' = "true" /\ syncReturn # "true") =>
          \E s \in Slots : Returns(s)
    ]_vars

\* A pass whose entries all failed has returned true: nothing was applied,
\* no store operation rejected, every entry is still queued with its
\* counter raised.
C37_Witness ==
  /\ syncReturn = "true"
  /\ \A s \in Slots : pass[s].pc = "idle"
  /\ faults = 0
  /\ syncQueue # {}
  /\ \A item \in syncQueue : item.retryCount >= 1 /\ applied[item.id] = 0

\* ---------------------------------------------------------------------------
\* order of successful replays across passes

\* C31: successful replays reach the remote authority in enqueue order
\* across drain passes: when the gateway has just accepted the replay of an
\* entry, no entry enqueued after it has been replayed successfully before.
C31_SuccessInEnqueueOrder ==
  \A s \in Slots :
    pass[s].pc = "done" =>
      \A q \in 1..MaxWrites : q > Item(s).id => ~Replayed(q)

\* ---------------------------------------------------------------------------
\* clearPendingData during a drain pass

\* C32: once clearPendingData has completed, no queue entry that existed
\* before the call is sent to the remote gateway: whenever a pass makes a
\* request for an item of its snapshot, that item is still in the queue.
C32_ClearedNeverSent ==
  [][\A s \in Slots :
       (pass'[s].pc = "fetch" /\ pass'[s] # pass[s]) =>
         pass'[s].items[pass'[s].i].id \in {q.id : q \in syncQueue'}
    ]_vars

\* ---------------------------------------------------------------------------
\* connectivity and the retry budget

\* C33: the retry budget is spent only while online: a drain pass starts
\* only while the connectivity signal is online, whichever trigger starts
\* it, and every request of a pass (whose failure increments the entry's
\* retry counter) is begun while online.
C33_AttemptsOnlyOnline ==
  [][\A s \in Slots :
       /\ (pass[s].pc = "idle" /\ pass'[s].pc # "idle") => online
       /\ (pass'[s].pc = "fetch" /\ pass'[s] # pass[s]) => online
    ]_vars

\* ---------------------------------------------------------------------------
\* overlapping downloadServerData calls

\* A second downloadServerData(userId) is called while the first one is
\* suspended at one of its awaits; the steps below are those of
\* DownloadServerData, FetchMonth, CheckExisting, InsertEntry and
\* UpdateLastSyncTime for that second frame.
OtherDownloadServerData(userId) ==
  /\ dl.pc # "idle"
  /\ dlOther.pc = "idle"
  /\ dlCalls < MaxDownloads
  /\ dlCalls' = dlCalls + 1
  /\ IF OfflineGuard
       THEN /\ dlReturn' = "offline"
            /\ UNCHANGED dlOther
       ELSE /\ dlReturn' = "pending"
            /\ dlOther' = [IdleDownload EXCEPT !.pc = "fetch",
                                               !.userId = userId, !.m = 1]
  /\ UNCHANGED <<timeEntries, nextEntryId, syncQueue, nextQueueId, now, online,
                 syncInProgress, pass, writer, applied, exhausted, persisted,
                 callLog, undrained, syncReturn, users, nextUserId, saver,
                 dl, stable, direct, resolver, stats, sent, faults>>

OtherFetchMonth ==
  /\ dlOther.pc = "fetch"
  /\ \E outcome \in {"ok", "status", "reject"} :
       /\ outcome # "reject" => online
       /\ CASE outcome = "ok" ->
                 /\ dlOther' = DownloadStep(dlOther, ServerEntries(dlOther.m), 1)
                 /\ UNCHANGED dlReturn
            [] outcome = "status" ->
                 /\ dlOther' =
                      DownloadStep([dlOther EXCEPT !.failed = TRUE], <<>>, 1)
                 /\ UNCHANGED dlReturn
            [] outcome = "reject" ->
                 /\ dlOther' = IdleDownload
                 /\ dlReturn' = "error"
  /\ UNCHANGED <<timeEntries, nextEntryId, syncQueue, nextQueueId, now, online,
                 syncInProgress, pass, writer, applied, exhausted, persisted,
                 callLog, undrained, syncReturn, users, nextUserId, saver,
                 dl, dlCalls, stable, direct, resolver, stats, sent, faults>>

OtherCheckExisting ==
  /\ dlOther.pc = "check"
  /\ dlOther' =
       IF Existing(OfflineEntryOf(dlOther.userId, dlOther.entries[dlOther.k]))
         THEN DownloadStep(dlOther, dlOther.entries, dlOther.k + 1)
         ELSE [dlOther EXCEPT !.pc = "add"]
  /\ UNCHANGED <<timeEntries, nextEntryId, syncQueue, nextQueueId, now, online,
                 syncInProgress, pass, writer, applied, exhausted, persisted,
                 callLog, undrained, syncReturn, users, nextUserId, saver,
                 dl, dlCalls, dlReturn, stable, direct, resolver, stats, sent,
                 faults>>

OtherInsertEntry ==
  /\ dlOther.pc = "add"
  /\ LET entry == OfflineEntryOf(dlOther.userId, dlOther.entries[dlOther.k]) IN
       timeEntries' = timeEntries \cup
         {EntryRecord(nextEntryId, entry, entry.synced)}
  /\ nextEntryId' = nextEntryId + 1
  /\ dlOther' = DownloadStep(dlOther, dlOther.entries, dlOther.k + 1)
  /\ UNCHANGED <<syncQueue, nextQueueId, now, online,
                 syncInProgress, pass, writer, applied, exhausted, persisted,
                 callLog, undrained, syncReturn, users, nextUserId, saver,
                 dl, dlCalls, dlReturn, stable, direct, resolver, stats, sent,
                 faults>>

OtherUpdateLastSyncTime ==
  /\ dlOther.pc = "touch"
  /\ now' = now + 1
  /\ users' = {IF u.email = dlOther.userId THEN [u EXCEPT !.lastSync = now']
                                            ELSE u : u \in users}
  /\ dlOther' = IdleDownload
  /\ dlReturn' = "ok"
  /\ UNCHANGED <<timeEntries, nextEntryId, syncQueue, nextQueueId, online,
                 syncInProgress, pass, writer, applied, exhausted, persisted,
                 callLog, undrained, syncReturn, nextUserId, saver, dl,
                 dlCalls, stable, direct, resolver, stats, sent, faults>>

\* Two downloads of the session user's data, the second one called while
\* the first is in flight; nothing else writes the time-entry table.
NextOverlap ==
  \/ DownloadServerData(SessionEmail)
  \/ FetchMonth
  \/ CheckExisting
  \/ InsertEntry
  \/ UpdateLastSyncTime
  \/ OtherDownloadServerData(SessionEmail)
  \/ OtherFetchMonth
  \/ OtherCheckExisting
  \/ OtherInsertEntry
  \/ OtherUpdateLastSyncTime
  \/ Connectivity

SpecOverlap == Init /\ [][NextOverlap]_vars

\* C34: two overlapping downloadServerData calls for the same user never
\* leave two local records with the same (owner, date, start) triple
\* hydrated from the server.
C34_OverlapNoDuplicate ==
  \A a \in timeEntries : \A b \in timeEntries :
    (a.synced /\ b.synced /\ SameTriple(a, b)) => a.id = b.id

\* ---------------------------------------------------------------------------
\* synced records and the queue

\* The store's writes called with any key beside one download.
NextSynced ==
  \/ AddTimeEntry
  \/ UpdateTimeEntryAny
  \/ Enqueue
  \/ DownloadOnce
  \/ FetchMonth
  \/ CheckExisting
  \/ InsertEntry
  \/ UpdateLastSyncTime
  \/ Connectivity

SpecSynced == Init /\ [][NextSynced]_vars

\* C36: in every reachable state a local time entry with synced = true has
\* no pending queue entry targeting its id.
C36_SyncedHasNoPending ==
  \A e \in timeEntries :
    e.synced => ~\E q \in syncQueue : q.recordId = IdString(e.id)

\* ---------------------------------------------------------------------------
\* every queue entry leaves the queue

\* Entries are saved and the timer starts drain passes against a gateway
\* that answers at will, while connectivity comes and goes.
\* clearPendingData is not called and no store operation rejects.
NextDrain ==
  \/ AddTimeEntry
  \/ Enqueue
  \/ TimerTick
  \/ \E s \in Slots : ReadQueue(s)
  \/ \E s \in Slots : DropItem(s)
  \/ \E s \in Slots : RemoteCall(s)
  \/ \E s \in Slots : CompleteItem(s)
  \/ \E s \in Slots : RetryItem(s)
  \/ \E s \in Slots : DelayOver(s)
  \/ Connectivity

\* The 30-second timer keeps firing, so a tick falls into a time at which
\* the device is online and no pass runs if such times keep coming; every
\* await of a pass settles.
DrainFairness ==
  /\ SF_vars(TimerTick)
  /\ \A s \in Slots :
       /\ WF_vars(ReadQueue(s))
       /\ WF_vars(DropItem(s))
       /\ WF_vars(RemoteCall(s))
       /\ WF_vars(CompleteItem(s))
       /\ WF_vars(RetryItem(s))
       /\ WF_vars(DelayOver(s))

SpecDrain == Init /\ [][NextDrain]_vars /\ DrainFairness

\* The retry counter of queue entry q in the queue.
RetryCount(q) == (CHOOSE e \in syncQueue : e.id = q).retryCount

\* C35: every queue entry eventually leaves the queue, whatever the gateway
\* does, as long as the device keeps coming online: an entry leaves by the
\* completion of a successful replay or by the exhaustion drop of a pass
\* that read it with maxRetries failed attempts; a pass that attempted an
\* entry and failed has raised its retry counter by one when it moves on,
\* so an entry is read by at most maxRetries + 1 passes.
C35_EntryLeaves ==
  /\ [][\A q \in QueueIds \ {e.id : e \in syncQueue'} :
          \E s \in Slots :
            /\ Item(s).id = q
            /\ \/ pass[s].pc = "done"
               \/ /\ pass[s].pc = "drop"
                  /\ RetryCount(q) = maxRetries
                  /\ q \in exhausted'
       ]_vars
  /\ [](\A s \in Slots :
          pass[s].pc = "delay" =>
            /\ Item(s).id \in QueueIds
            /\ RetryCount(Item(s).id) = Item(s).retryCount + 1
            /\ RetryCount(Item(s).id) <= maxRetries)
  /\ \A q \in 1..MaxWrites :
       ([]<>online) => ((q \in QueueIds) ~> (q \notin QueueIds))

\* An entry whose three attempts failed has been dropped by the pass after
\* them, without ever having been applied remotely.
C35_Witness ==
  /\ \E q \in exhausted : applied[q] = 0 /\ q \notin QueueIds
  /\ \A s \in Slots : pass[s].pc = "idle"

====
